---- MODULE Spec2Model ----
(***************************************************************************)
(* BrowserPool (src/browser_use/browser/pool.py), CircuitBreaker and the    *)
(* retry wrappers (src/browser_use/retry_utils.py) as state machines.  Each *)
(* component has its own specification over the shared variables: Spec for *)
(* the pool, SpecCB for the breaker, SpecRetry for the retry wrappers.     *)
(*                                                                         *)
(* Tasks are asyncio coroutines on one event loop: a step of the model is  *)
(* the code a task runs between two suspension points.  `async with        *)
(* self._lock` on a free lock and `Queue.put` on the unbounded queue do    *)
(* not suspend, so they are part of the step that reaches them; a lock     *)
(* that is held, `wait_for(queue.get())`, `asyncio.sleep`, `browser.start`,*)
(* `new_context`, `context.close` and `gather` are suspension points.      *)
(***************************************************************************)
EXTENDS Integers, Sequences, FiniteSets, TLC

\* ---- bounds of the model ------------------------------------------------
\* concurrent tasks; BrowserSession objects ever started; how far below zero
\* a context count may be driven before further failures are cut off
NTasks == 2
MaxIds == 3
MaxUnder == 1

\* ---- constructor parameters (pool.py:19-20), small values ----------------
max_browsers == 1
max_contexts_per_browser == 2

Tasks == 1..NTasks
Ids == 1..MaxIds

\* ---- bounds of the breaker model ------------------------------------------
\* concurrent callers of one breaker; last value of the clock
NCallers == 2
MaxTime == 4

\* ---- constructor parameters (retry_utils.py:209-210), small values --------
failure_threshold == 2
recovery_timeout == 1

Callers == 1..NCallers

\* ---- bounds of the retry model --------------------------------------------
\* largest max_retries a wrapper is built with
MaxRetries == 3

\* RetryConfig.__init__: max_retries: int = 3
DefaultRetries == 3

\* ---- bounds of the calculate_delay model ------------------------------------
\* largest small attempt number; random.random() takes the values k/Grain,
\* k < Grain; powers are computed exactly up to the exponent SatExp, beyond
\* which they exceed every max_delay / initial_delay considered
MaxAttempt == 6
Grain == 4
SatExp == 20

\* a Python float overflows at 2.0 ** 1024
FloatMaxExp == 1024

\* ---- bounds of the health checker model -----------------------------------
\* concurrent callers of the global health checker; Page objects alive at
\* the same time
NCheckers == 2
NPages == 2

Checkers == 1..NCheckers
Pages == 1..NPages

\* BrowserHealthChecker.__init__: self._cache_ttl = 2.0
_cache_ttl == 2

\* ---- bounds of the DOM cache model ------------------------------------------
\* Page objects using the cache, URLs they visit, parameter combinations
\* (highlight_elements, focus_element, viewport_expansion) asked for, and the
\* cache's max_size
NDomPages == 2
NUrls == 3
NParams == 1
max_size == 2

DomPages == 1..NDomPages
Urls == 1..NUrls
Params == 1..NParams

\* DOMCache.__init__: ttl_seconds = 2.0
ttl_seconds == 2

VARIABLES
    browsers,        \* self._browsers
    available,       \* self._available_browsers (FIFO queue)
    context_counts,  \* self._context_counts
    lock,            \* self._lock: 0 when free, else the task holding it
    initialized,     \* self._initialized
    shutdown,        \* self._shutdown
    disconnected,    \* queued browsers whose browser.is_connected() is false
    closed,          \* the browsers on which the last shutdown() that had
                     \* browsers to close called close(), each with what the
                     \* call did: "closed" or "raised"
    task             \* per task: position and locals of its current call

VARIABLES
    _state,              \* CircuitBreaker._state
    _failure_count,      \* CircuitBreaker._failure_count
    _last_failure_time,  \* CircuitBreaker._last_failure_time, 0 for None
    now,                 \* what time.time() returns
    failed_at,           \* when _on_failure last ran, 0 for never
    caller               \* per caller of the breaker: its current call

VARIABLES
    config,          \* the RetryConfig object: its max_retries
    retry            \* the running wrapper call: position, locals, history

VARIABLES
    delay            \* the last calculate_delay call: its RetryConfig, its
                     \* arguments, its result

VARIABLES
    _health_cache,       \* BrowserHealthChecker._health_cache
    page_closed,         \* the pages whose is_closed() is true
    agent_current_page,  \* self.agent_current_page of the decorated object, 0 for None
    browser_context,     \* whether its self.browser_context is set
    check                \* per caller: its is_page_healthy or wrapper call

VARIABLES
    _cache,          \* DOMCache._cache: key -> timestamp of its entry
    _access_order,   \* DOMCache._access_order
    _page_caches,    \* DOMCache._page_caches: page -> keys stored for it
    page_url,        \* page.url of every page
    dom              \* the last DOMCache operation and what it returned

poolvars == <<browsers, available, context_counts, lock, initialized, shutdown,
              disconnected, closed, task>>
cbvars == <<_state, _failure_count, _last_failure_time, now, failed_at, caller>>
retryvars == <<config, retry>>
delayvars == <<delay>>
healthvars == <<_health_cache, page_closed, agent_current_page, browser_context, check>>
domvars == <<_cache, _access_order, _page_caches, page_url, dom>>

\* what a step of the breaker, of a retry wrapper, of calculate_delay and of
\* the health checker leaves alone
besidesCB == <<poolvars, retryvars, delayvars, healthvars, domvars>>
besidesRetry == <<poolvars, cbvars, delayvars, healthvars, domvars>>
besidesDelay == <<poolvars, cbvars, retryvars, healthvars, domvars>>
besidesHealth == <<poolvars, retryvars, delayvars, domvars, _state,
                   _failure_count, _last_failure_time, failed_at, caller>>
besidesDOM == <<poolvars, retryvars, delayvars, healthvars, _state,
                _failure_count, _last_failure_time, failed_at, caller>>

\* the state of the other components, which no pool operation touches
elsewhere == <<cbvars, retryvars, delayvars, healthvars, domvars>>


vars == <<browsers, available, context_counts, lock, initialized, shutdown,
          disconnected, closed, task, elsewhere>>

\* Locals of a call.  browser/context are the locals of acquire_context,
\* cand is the local `browser` of _get_available_browser, exc the exception
\* pending while the finally block runs.  res, yielded, before, initStarted
\* and loopStarted record what the call did.
NewCall(o) ==
    [pc |-> "idle", op |-> o, browser |-> 0, context |-> "none", cand |-> 0,
     exc |-> "none", res |-> "none", yielded |-> FALSE, before |-> 0,
     initStarted |-> 0, loopStarted |-> 0]

\* A call or async_call through the breaker: `read` is what self.state
\* returned at line 243/256, res how the call ended
NoCall == [pc |-> "idle", kind |-> "none", read |-> "none", res |-> "none"]

\* Locals of a wrapper call (retry_utils.py:83-109): `stop` is the end of
\* range(1, config.max_retries + 2), evaluated once; last_exception is the
\* attempt whose exception is held, 0 for None.  N, calls, log, res, value,
\* steady and thrown record what the call did: the limit it started with,
\* the invocations of func, the invocations and sleeps in order, how it
\* ended and with which attempt's result or exception, whether
\* config.max_retries kept the value N throughout, and what the last
\* invocation of func raised ("retryable", "other" or "none").
NoRetry ==
    [pc |-> "idle", kind |-> "none", attempt |-> 0, stop |-> 0,
     last_exception |-> 0, N |-> 0, calls |-> 0, log |-> <<>>,
     res |-> "none", value |-> 0, steady |-> TRUE, thrown |-> "none"]

\* A calculate_delay call: the attributes of the RetryConfig it reads, its
\* argument, the value of random.random() in units of 1/Grain, and its result
NoDelay ==
    [initial_delay |-> 0, exponential_base |-> 0, max_delay |-> 0,
     jitter |-> FALSE, attempt |-> 0, random |-> 0, raised |-> "none",
            result |-> 0]

\* A call of is_page_healthy (via = "direct") or of a function decorated
\* with healthy_browser_required (via = "wrapper"): the page it checks, what
\* is_page_healthy returned, and what the call did: whether it started
\* page.evaluate, how many times it called new_page and func, how it ended
NoCheck ==
    [pc |-> "idle", via |-> "none", page |-> 0, healthy |-> "none",
     probe |-> "none", recovery |-> "none", recoveries |-> 0,
     invocations |-> 0, res |-> "none"]

\* CircuitBreaker.__init__ (retry_utils.py:224-226); no call in progress
InitCB ==
    /\ _state = "closed"
    /\ _failure_count = 0
    /\ _last_failure_time = 0
    /\ now = 1
    /\ failed_at = 0
    /\ caller = [c \in Callers |-> NoCall]

\* RetryConfig() and no wrapper call in progress
InitRetry ==
    /\ config = DefaultRetries
    /\ retry = NoRetry

\* no calculate_delay call yet
InitDelay == delay = NoDelay

\* BrowserHealthChecker.__init__ (health_checker.py:22-24); the decorated
\* object has a current page and a browser context, no call is in progress
InitHealth ==
    /\ _health_cache = <<>>
    /\ page_closed = {}
    /\ agent_current_page = 1
    /\ browser_context = TRUE
    /\ check = [c \in Checkers |-> NoCheck]

\* no DOMCache operation made yet
NoOp ==
    [op |-> "none", page |-> 0, result |-> "none", evicted |-> FALSE,
     raised |-> "none"]

\* DOMCache.__init__ (dom/cache.py:47-53); every page starts at the same URL
InitDOM ==
    /\ _cache = <<>>
    /\ _access_order = <<>>
    /\ _page_caches = <<>>
    /\ page_url = [p \in DomPages |-> 1]
    /\ dom = NoOp

Init ==
    /\ InitCB
    /\ InitRetry
    /\ InitDelay
    /\ InitHealth
    /\ InitDOM
    /\ browsers = {}
    /\ available = <<>>
    /\ context_counts = <<>>
    /\ lock = 0
    /\ initialized = FALSE
    /\ shutdown = FALSE
    /\ disconnected = {}
    /\ closed = <<>>
    /\ task = [t \in Tasks |-> NewCall("none")]

\* ---- pure helpers --------------------------------------------------------
\* BrowserSession(...) of line 63 is a new object: an identity that nothing
\* in the pool or in a running call refers to
Referenced ==
    browsers \cup DOMAIN context_counts \cup {available[i] : i \in 1..Len(available)}
        \cup {task[t].browser : t \in Tasks} \cup {task[t].cand : t \in Tasks}

FreeIds == Ids \ Referenced

NewId == CHOOSE b \in FreeIds : \A c \in FreeIds : b <= c

InQueue(q, b) == \E i \in 1..Len(q) : q[i] = b

Occurrences(q, b) == Cardinality({i \in 1..Len(q) : q[i] = b})

\* dict.get(browser, 0)
GetCount(cc, b) == IF b \in DOMAIN cc THEN cc[b] ELSE 0

\* self._context_counts[browser] = 0
Register(cc, b) == [x \in (DOMAIN cc) \cup {b} |-> IF x = b THEN 0 ELSE cc[x]]

\* mutant: the disconnected browser is left in the list
RemoveBrowser_Kept(S, b) == S

\* if browser in self._browsers: self._browsers.remove(browser)
RemoveBrowser(S, b) == S \ {b}

\* if browser in self._context_counts: del self._context_counts[browser]
DropCount(cc, b) == [x \in (DOMAIN cc) \ {b} |-> cc[x]]

\* self._context_counts.get(browser, 0) < self.max_contexts_per_browser
HasCapacity(cc, b) == GetCount(cc, b) < max_contexts_per_browser

\* len(self._browsers) < self.max_browsers
CanCreate(S) == Cardinality(S) < max_browsers

\* self._context_counts[browser] += 1
IncCount(cc, b) == [cc EXCEPT ![b] = @ + 1]

\* mutant: the release forgets the decrement
DecCount_Skipped(cc, b) == cc

\* self._context_counts[browser] -= 1
DecCount(cc, b) == [cc EXCEPT ![b] = @ - 1]

\* mutant: the release never puts the browser back on the queue
ReturnToPool_Never(q, cc, b) == q

\* if self._context_counts[browser] < max: await self._available_browsers.put(browser)
ReturnToPool(q, cc, b) ==
    IF cc[b] < max_contexts_per_browser THEN Append(q, b) ELSE q

\* mutant: the head is read but left on the queue
Dequeue_Peek(q) == q

\* the queue after self._available_browsers.get() took its head
Dequeue(q) == Tail(q)

\* mutant: no second check under the lock
InitCheck_Missing == FALSE

\* the second `if self._initialized: return`, under the lock
InitCheck == initialized

\* ---- control-flow fragments: pure functions on (pool, locals) ------------
Pool == [browsers |-> browsers, counts |-> context_counts, avail |-> available]

\* the call returns or raises to its caller
Finish(r, result) ==
    [NewCall(r.op) EXCEPT !.res = result]

\* mutant: the loop is `while True`
LoopTop_Forever(r) == [r EXCEPT !.pc = "get", !.cand = 0]

\* `while not self._shutdown:` ... `raise RuntimeError(...)`; the error
\* leaves acquire_context through a finally block that finds browser = None
LoopTop(r) ==
    IF shutdown THEN Finish(r, "PoolShuttingDown")
    ELSE [r EXCEPT !.pc = "get", !.cand = 0]

\* initialize() returned: acquire_context goes on to _get_available_browser
AfterInit(r) ==
    IF r.op = "initialize" THEN Finish(r, "ok") ELSE LoopTop(r)

\* lines 124-128, under the lock
EvictSection(P, r, b) ==
    [P |-> [P EXCEPT !.browsers = RemoveBrowser(P.browsers, b),
                     !.counts = DropCount(P.counts, b)],
     r |-> LoopTop(r)]

\* mutant: a browser with capacity is handed out and also left available
CapSection_Requeue(P, r, b) ==
    IF HasCapacity(P.counts, b)
    THEN [P |-> [P EXCEPT !.avail = Append(P.avail, b)],
          r |-> [r EXCEPT !.pc = "new_context", !.browser = b, !.cand = 0]]
    ELSE [P |-> [P EXCEPT !.avail = Append(P.avail, b)], r |-> LoopTop(r)]

\* lines 132-136, under the lock, then `await new_context()` or loop
CapSection(P, r, b) ==
    IF HasCapacity(P.counts, b)
    THEN [P |-> P, r |-> [r EXCEPT !.pc = "new_context", !.browser = b, !.cand = 0]]
    ELSE [P |-> [P EXCEPT !.avail = Append(P.avail, b)], r |-> LoopTop(r)]

\* lines 85-88, under the lock: KeyError when the browser is no longer counted
IncSection(P, r) ==
    IF r.browser \in DOMAIN P.counts
    THEN [P |-> [P EXCEPT !.counts = IncCount(P.counts, r.browser)],
          r |-> [r EXCEPT !.pc = "body", !.yielded = TRUE]]
    ELSE [P |-> P, r |-> [r EXCEPT !.pc = "close", !.exc = "KeyError"]]

\* lines 100-108, under the lock; then the pending exception, if any, surfaces
ReleaseSection(P, r) ==
    LET b == r.browser
        outcome == IF r.exc = "none" THEN "ok" ELSE r.exc
    IN IF b \in DOMAIN P.counts
       THEN LET cc == DecCount(P.counts, b)
            IN [P |-> [P EXCEPT !.counts = cc,
                                !.avail = ReturnToPool(P.avail, cc, b)],
                r |-> Finish(r, outcome)]
       ELSE [P |-> P, r |-> Finish(r, outcome)]

SetTask(t, r) == task' = [task EXCEPT ![t] = r]

Apply(t, out) ==
    /\ browsers' = out.P.browsers
    /\ context_counts' = out.P.counts
    /\ available' = out.P.avail
    /\ SetTask(t, out.r)

Same(r) == [P |-> Pool, r |-> r]

\* ---- initialize() (lines 41-59) ------------------------------------------
\* entry of initialize(), called directly or from acquire_context line 72
EnterInitialize(t, r) ==
    IF lock = 0
    THEN /\ lock' = t
         /\ Apply(t, Same([r EXCEPT !.pc = "init_create"]))
    ELSE /\ lock' = lock
         /\ Apply(t, Same([r EXCEPT !.pc = "init_lock"]))

CallInitialize(t) ==
    /\ task[t].pc = "idle"
    /\ IF initialized
       THEN /\ Apply(t, Same(Finish(NewCall("initialize"), "ok")))
            /\ lock' = lock
       ELSE EnterInitialize(t, NewCall("initialize"))
    /\ UNCHANGED <<initialized, shutdown, disconnected, closed, elsewhere>>

CallAcquire(t) ==
    /\ task[t].pc = "idle"
    /\ IF initialized
       THEN /\ Apply(t, Same(LoopTop(NewCall("acquire"))))
            /\ lock' = lock
       ELSE EnterInitialize(t, NewCall("acquire"))
    /\ UNCHANGED <<initialized, shutdown, disconnected, closed, elsewhere>>

\* the lock wait of line 46 ends
InitLock(t) ==
    /\ task[t].pc = "init_lock"
    /\ lock = 0
    /\ IF InitCheck
       THEN /\ lock' = 0
            /\ Apply(t, Same(AfterInit(task[t])))
       ELSE /\ lock' = t
            /\ Apply(t, Same([task[t] EXCEPT !.pc = "init_create"]))
    /\ UNCHANGED <<initialized, shutdown, disconnected, closed, elsewhere>>

\* browser.start() returned: lines 54-58
InitCreateOk(t) ==
    /\ task[t].pc = "init_create"
    /\ FreeIds /= {}
    /\ LET b == NewId
           r == [task[t] EXCEPT !.initStarted = @ + 1]
       IN /\ browsers' = browsers \cup {b}
          /\ context_counts' = Register(context_counts, b)
          /\ available' = Append(available, b)
          /\ initialized' = TRUE
          /\ lock' = 0
          /\ closed' = DropCount(closed, b)
          /\ SetTask(t, AfterInit(r))
    /\ UNCHANGED <<shutdown, disconnected, elsewhere>>

\* browser.start() raised (or the task was cancelled in it): the lock is
\* released and the error leaves initialize() and acquire_context
InitCreateFail(t) ==
    /\ task[t].pc = "init_create"
    /\ lock' = 0
    /\ SetTask(t, Finish(task[t], "StartupFailure"))
    /\ UNCHANGED <<browsers, available, context_counts, initialized, shutdown,
                   disconnected, closed, elsewhere>>

\* ---- _get_available_browser() (lines 110-150) -----------------------------
\* wait_for(queue.get()) delivered the head of the queue: lines 121-136
Pop(t) ==
    /\ task[t].pc = "get"
    /\ available /= <<>>
    /\ LET b == Head(available)
           P == [Pool EXCEPT !.avail = Dequeue(available)]
           r == [task[t] EXCEPT !.cand = b, !.before = GetCount(context_counts, b)]
       IN IF b \in disconnected
          THEN IF lock = 0
               THEN Apply(t, EvictSection(P, r, b))
               ELSE Apply(t, [P |-> P, r |-> [r EXCEPT !.pc = "evict_lock"]])
          ELSE IF lock = 0
               THEN Apply(t, CapSection(P, r, b))
               ELSE Apply(t, [P |-> P, r |-> [r EXCEPT !.pc = "cap_lock"]])
    /\ disconnected' = disconnected \ {Head(available)}
    /\ UNCHANGED <<lock, initialized, shutdown, closed, elsewhere>>

\* the lock wait of line 123 ends
EvictLock(t) ==
    /\ task[t].pc = "evict_lock"
    /\ lock = 0
    /\ Apply(t, EvictSection(Pool, task[t], task[t].cand))
    /\ UNCHANGED <<lock, initialized, shutdown, disconnected, closed, elsewhere>>

\* the lock wait of line 131 ends
CapLock(t) ==
    /\ task[t].pc = "cap_lock"
    /\ lock = 0
    /\ Apply(t, CapSection(Pool, task[t], task[t].cand))
    /\ UNCHANGED <<lock, initialized, shutdown, disconnected, closed, elsewhere>>

\* lines 140-148 once the lock is taken: start a browser or sleep
TimeoutSection(t) ==
    IF CanCreate(browsers)
    THEN /\ lock' = t
         /\ Apply(t, Same([task[t] EXCEPT !.pc = "to_create"]))
    ELSE /\ lock' = 0
         /\ Apply(t, Same([task[t] EXCEPT !.pc = "sleep"]))

\* wait_for timed out on an empty queue (line 138)
Timeout(t) ==
    /\ task[t].pc = "get"
    /\ available = <<>>
    /\ IF lock = 0
       THEN TimeoutSection(t)
       ELSE /\ lock' = lock
            /\ Apply(t, Same([task[t] EXCEPT !.pc = "to_lock"]))
    /\ UNCHANGED <<initialized, shutdown, disconnected, closed, elsewhere>>

\* the lock wait of line 140 ends
ToLock(t) ==
    /\ task[t].pc = "to_lock"
    /\ lock = 0
    /\ TimeoutSection(t)
    /\ UNCHANGED <<initialized, shutdown, disconnected, closed, elsewhere>>

\* mutant: the `return browser` is missing and the loop goes on to sleep
ReturnCreated_Looping(r, b) ==
    [r EXCEPT !.pc = "sleep", !.loopStarted = @ + 1]

\* `return browser` of line 145: _get_available_browser ends with the browser
\* it started and acquire_context awaits new_context() on it
ReturnCreated(r, b) ==
    [r EXCEPT !.pc = "new_context", !.browser = b, !.before = 0,
              !.loopStarted = @ + 1]

\* browser.start() returned in the timeout path: lines 143-145, then line 82
ToCreateOk(t) ==
    /\ task[t].pc = "to_create"
    /\ FreeIds /= {}
    /\ LET b == NewId
       IN /\ browsers' = browsers \cup {b}
          /\ context_counts' = Register(context_counts, b)
          /\ lock' = 0
          /\ closed' = DropCount(closed, b)
          /\ SetTask(t, ReturnCreated(task[t], b))
    /\ UNCHANGED <<available, initialized, shutdown, disconnected, elsewhere>>

\* browser.start() raised or was cancelled in the timeout path
ToCreateFail(t) ==
    /\ task[t].pc = "to_create"
    /\ lock' = 0
    /\ SetTask(t, Finish(task[t], "StartupFailure"))
    /\ UNCHANGED <<browsers, available, context_counts, initialized, shutdown,
                   disconnected, closed, elsewhere>>

\* asyncio.sleep(0.1) of line 148 is over
Wake(t) ==
    /\ task[t].pc = "sleep"
    /\ Apply(t, Same(LoopTop(task[t])))
    /\ UNCHANGED <<lock, initialized, shutdown, disconnected, closed, elsewhere>>

\* CancelledError delivered at a suspension point at which acquire_context's
\* local `browser` is still None (or before its try block): nothing is undone
CancelPoints == {"init_lock", "get", "sleep", "evict_lock", "cap_lock", "to_lock"}

Cancel(t) ==
    /\ task[t].pc \in CancelPoints
    /\ SetTask(t, Finish(task[t], "Cancelled"))
    /\ UNCHANGED <<browsers, available, context_counts, lock, initialized,
                   shutdown, disconnected, closed, elsewhere>>

\* ---- acquire_context() (lines 68-108) -------------------------------------
\* the release block of lines 99-108, entered with the context dealt with
Release(t, r) ==
    IF r.browser = 0
    THEN Apply(t, Same(Finish(r, IF r.exc = "none" THEN "ok" ELSE r.exc)))
    ELSE IF lock = 0
         THEN Apply(t, ReleaseSection(Pool, r))
         ELSE Apply(t, Same([r EXCEPT !.pc = "rel_lock"]))

\* new_context() returned (line 82); lines 84-88
NewContextOk(t) ==
    /\ task[t].pc = "new_context"
    /\ LET r == [task[t] EXCEPT !.context = "open"]
       IN IF lock = 0
          THEN Apply(t, IncSection(Pool, r))
          ELSE Apply(t, Same([r EXCEPT !.pc = "inc_lock"]))
    /\ UNCHANGED <<lock, initialized, shutdown, disconnected, closed, elsewhere>>

\* new_context() raised or was cancelled: finally block with context = None
NewContextFail(t) ==
    /\ task[t].pc = "new_context"
    /\ GetCount(context_counts, task[t].browser) > 0 - MaxUnder
    /\ Release(t, [task[t] EXCEPT !.exc = "ContextError"])
    /\ UNCHANGED <<lock, initialized, shutdown, disconnected, closed, elsewhere>>

\* the lock wait of line 84 ends
IncLock(t) ==
    /\ task[t].pc = "inc_lock"
    /\ lock = 0
    /\ Apply(t, IncSection(Pool, task[t]))
    /\ UNCHANGED <<lock, initialized, shutdown, disconnected, closed, elsewhere>>

\* CancelledError delivered in the lock wait of line 84
CancelInc(t) ==
    /\ task[t].pc = "inc_lock"
    /\ GetCount(context_counts, task[t].browser) > 0 - MaxUnder
    /\ Apply(t, Same([task[t] EXCEPT !.pc = "close", !.exc = "Cancelled"]))
    /\ UNCHANGED <<lock, initialized, shutdown, disconnected, closed, elsewhere>>

\* the caller's `async with` body ends, normally or by an exception
BodyExit(t, e) ==
    /\ task[t].pc = "body"
    /\ Apply(t, Same([task[t] EXCEPT !.pc = "close", !.exc = e]))
    /\ UNCHANGED <<lock, initialized, shutdown, disconnected, closed, elsewhere>>

\* context.close() returned or raised an Exception (lines 93-96), then 99-108
CloseDone(t, ok) ==
    /\ task[t].pc = "close"
    /\ Release(t, [task[t] EXCEPT !.context = IF ok THEN "closed" ELSE "close_failed"])
    /\ UNCHANGED <<lock, initialized, shutdown, disconnected, closed, elsewhere>>

\* the lock wait of line 100 ends
RelLock(t) ==
    /\ task[t].pc = "rel_lock"
    /\ lock = 0
    /\ Apply(t, ReleaseSection(Pool, task[t]))
    /\ UNCHANGED <<lock, initialized, shutdown, disconnected, closed, elsewhere>>

\* CancelledError delivered inside the finally block (in context.close() or
\* in the lock wait of line 100): the rest of the block is skipped
CancelFinally(t) ==
    /\ task[t].pc \in {"close", "rel_lock"}
    /\ SetTask(t, Finish(task[t], "Cancelled"))
    /\ UNCHANGED <<browsers, available, context_counts, lock, initialized,
                   shutdown, disconnected, closed, elsewhere>>

\* ---- shutdown() (lines 152-170) -------------------------------------------
\* lines 158-168 once the lock is taken; gather() suspends only if there is
\* something to close
ShutdownSection(t, r) ==
    IF browsers /= {}
    THEN /\ lock' = t
         /\ SetTask(t, [r EXCEPT !.pc = "sd_close"])
         /\ UNCHANGED <<browsers, context_counts, initialized>>
    ELSE /\ lock' = 0
         /\ browsers' = {}
         /\ context_counts' = <<>>
         /\ initialized' = FALSE
         /\ SetTask(t, Finish(r, "ok"))

CallShutdown(t) ==
    /\ task[t].pc = "idle"
    /\ shutdown' = TRUE
    /\ IF lock = 0
       THEN ShutdownSection(t, NewCall("shutdown"))
       ELSE /\ SetTask(t, [NewCall("shutdown") EXCEPT !.pc = "sd_lock"])
            /\ UNCHANGED <<lock, browsers, context_counts, initialized>>
    /\ UNCHANGED <<available, disconnected, closed, elsewhere>>

\* the lock wait of line 157 ends
SdLock(t) ==
    /\ task[t].pc = "sd_lock"
    /\ lock = 0
    /\ ShutdownSection(t, task[t])
    /\ UNCHANGED <<available, shutdown, disconnected, closed, elsewhere>>

\* close_tasks of lines 159-161: one browser.close() per tracked browser
CloseTargets(S) == S

\* mutant: gather() without return_exceptions=True lets a close error out
GatherResult_Raising(failing) == IF failing = {} THEN "ok" ELSE "CloseError"

\* what `await asyncio.gather(*close_tasks, return_exceptions=True)` raises
\* when the close() calls of the browsers in `failing` raise: nothing
GatherResult(failing) == "ok"

\* gather(*close_tasks, return_exceptions=True) returned: lines 166-168; the
\* close() of every browser in `failing` raised
SdCloseDone(t, failing) ==
    /\ task[t].pc = "sd_close"
    /\ failing \subseteq CloseTargets(browsers)
    /\ closed' = [b \in CloseTargets(browsers) |->
                      IF b \in failing THEN "raised" ELSE "closed"]
    /\ browsers' = {}
    /\ context_counts' = <<>>
    /\ initialized' = FALSE
    /\ lock' = 0
    /\ SetTask(t, Finish(task[t], GatherResult(failing)))
    /\ UNCHANGED <<available, shutdown, disconnected, elsewhere>>

\* ---- environment ----------------------------------------------------------
\* a browser loses its connection.  is_connected() is read only on a browser
\* just taken from the queue (line 121), so only queued browsers are followed
Disconnect(b) ==
    /\ InQueue(available, b)
    /\ b \notin disconnected
    /\ disconnected' = disconnected \cup {b}
    /\ UNCHANGED <<browsers, available, context_counts, lock, initialized,
                   shutdown, task, closed, elsewhere>>

Next ==
    \/ \E t \in Tasks :
        \/ CallInitialize(t)
        \/ CallAcquire(t)
        \/ InitLock(t)
        \/ InitCreateOk(t)
        \/ InitCreateFail(t)
        \/ Pop(t)
        \/ EvictLock(t)
        \/ CapLock(t)
        \/ Timeout(t)
        \/ ToLock(t)
        \/ ToCreateOk(t)
        \/ ToCreateFail(t)
        \/ Wake(t)
        \/ Cancel(t)
        \/ NewContextOk(t)
        \/ NewContextFail(t)
        \/ IncLock(t)
        \/ CancelInc(t)
        \/ \E e \in {"none", "BodyError"} : BodyExit(t, e)
        \/ \E ok \in BOOLEAN : CloseDone(t, ok)
        \/ RelLock(t)
        \/ CancelFinally(t)
        \/ CallShutdown(t)
        \/ SdLock(t)
        \/ \E failing \in SUBSET Ids : SdCloseDone(t, failing)
    \/ \E b \in Ids : Disconnect(b)

Spec == Init /\ [][Next]_vars

\* ---- scheduling -------------------------------------------------------------
\* A step the event loop or the driver makes for task t sooner or later:
\* wait_for(queue.get()) delivers or times out, asyncio.sleep ends,
\* browser.start(), new_context(), context.close() and gather() return or
\* raise.  Leaving the body of the `async with`, cancellation and
\* disconnection are up to the callers and the driver and need not happen.
Resumes(t) ==
    \/ Pop(t) \/ Timeout(t)
    \/ Wake(t)
    \/ InitCreateOk(t) \/ InitCreateFail(t)
    \/ ToCreateOk(t) \/ ToCreateFail(t)
    \/ NewContextOk(t) \/ NewContextFail(t)
    \/ \E ok \in BOOLEAN : CloseDone(t, ok)
    \/ \E failing \in SUBSET Ids : SdCloseDone(t, failing)

\* task t, waiting for self._lock, gets it
LockGranted(t) ==
    \/ InitLock(t) \/ EvictLock(t) \/ CapLock(t) \/ ToLock(t)
    \/ IncLock(t) \/ RelLock(t) \/ SdLock(t)

\* asyncio runs every task that can run, and asyncio.Lock serves its waiters
\* first come first served, so a waiter is not passed over for ever
Fairness == \A t \in Tasks : WF_vars(Resumes(t)) /\ SF_vars(LockGranted(t))

FairSpec == Spec /\ Fairness

\* ---- the pool while nothing goes wrong ----------------------------------------
\* No shutdown(), no failing browser.start() or new_context(), no
\* cancellation; browsers may still lose their connection.
\* Then the lock is held across an await only while a browser starts, so a
\* task waits for it at line 46 or 140 and, once max_browsers > 1, also at
\* lines 84, 100, 123 and 131: the end of a lock wait is one step here.
LockWaitEnds(t) ==
    CASE task[t].pc = "init_lock" -> InitLock(t)
      [] task[t].pc = "evict_lock" -> EvictLock(t)
      [] task[t].pc = "cap_lock" -> CapLock(t)
      [] task[t].pc = "to_lock" -> ToLock(t)
      [] task[t].pc = "inc_lock" -> IncLock(t)
      [] task[t].pc = "rel_lock" -> RelLock(t)
      [] OTHER -> FALSE

NextSteady ==
    \/ \E t \in Tasks :
        \/ CallInitialize(t)
        \/ CallAcquire(t)
        \/ InitCreateOk(t)
        \/ Pop(t)
        \/ Timeout(t)
        \/ ToCreateOk(t)
        \/ Wake(t)
        \/ NewContextOk(t)
        \/ LockWaitEnds(t)
        \/ \E e \in {"none", "BodyError"} : BodyExit(t, e)
        \/ \E ok \in BOOLEAN : CloseDone(t, ok)
    \/ \E b \in Ids : Disconnect(b)

\* the awaits of task t end, all of them successfully
ResumesSteady(t) ==
    \/ Pop(t) \/ Timeout(t)
    \/ Wake(t)
    \/ InitCreateOk(t)
    \/ ToCreateOk(t)
    \/ NewContextOk(t)
    \/ \E ok \in BOOLEAN : CloseDone(t, ok)

\* every holder leaves the body of its `async with` at some time
HolderExits(t) == \E e \in {"none", "BodyError"} : BodyExit(t, e)

FairnessSteady ==
    \A t \in Tasks :
        /\ WF_vars(ResumesSteady(t))
        /\ SF_vars(LockWaitEnds(t))
        /\ WF_vars(HolderExits(t))

SteadySpec == Init /\ [][NextSteady]_vars /\ FairnessSteady

\* ---- CircuitBreaker (retry_utils.py:204-287) ---------------------------------
\* Callers are threads (call) or coroutines (async_call) sharing one breaker:
\* a call is admitted in one step and its guarded function ends in a later
\* one, so calls overlap.  Time is the integer clock `now`.
Breaker == [st |-> _state, count |-> _failure_count, last |-> _last_failure_time]

\* the `state` property read at time t (lines 231-238): the value returned,
\* which the read also stores in _state
state(B, t) ==
    IF B.st = "open" /\ B.last /= 0 /\ t - B.last > recovery_timeout
    THEN "half-open"
    ELSE B.st

\* mutant: a success never closes the breaker
_on_success_Keeps(B) == [st |-> B.st, count |-> 0, last |-> 0]

\* lines 269-274
_on_success(B) ==
    [st |-> IF B.st = "half-open" THEN "closed" ELSE B.st, count |-> 0, last |-> 0]

\* mutant: the breaker opens one failure late
_on_failure_Late(B, t) ==
    [st |-> IF B.count + 1 > failure_threshold THEN "open"
            ELSE IF B.st = "half-open" THEN "open" ELSE B.st,
     count |-> B.count + 1,
     last |-> t]

\* lines 278-287 at time t
_on_failure(B, t) ==
    [st |-> IF B.count + 1 >= failure_threshold THEN "open"
            ELSE IF B.st = "half-open" THEN "open" ELSE B.st,
     count |-> B.count + 1,
     last |-> t]

SetBreaker(B) ==
    /\ _state' = B.st
    /\ _failure_count' = B.count
    /\ _last_failure_time' = B.last

\* lines 243-244 / 256-257: read self.state, raise if it is open, else go on
\* to invoke func
Admit(c, k) ==
    /\ caller[c].pc = "idle"
    /\ LET read == state(Breaker, now)
       IN /\ SetBreaker([Breaker EXCEPT !.st = read])
          /\ caller' = [caller EXCEPT ![c] =
                 IF read = "open"
                 THEN [pc |-> "idle", kind |-> k, read |-> read, res |-> "CircuitOpen"]
                 ELSE [pc |-> "running", kind |-> k, read |-> read, res |-> "none"]]
    /\ UNCHANGED <<now, failed_at, besidesCB>>

\* func returned: lines 248-249 / 261-262
Succeed(c) ==
    /\ caller[c].pc = "running"
    /\ SetBreaker(_on_success(Breaker))
    /\ caller' = [caller EXCEPT ![c].pc = "idle", ![c].res = "ok"]
    /\ UNCHANGED <<now, failed_at, besidesCB>>

\* func raised an expected_exception: lines 250-252 / 263-265
Fail(c) ==
    /\ caller[c].pc = "running"
    /\ SetBreaker(_on_failure(Breaker, now))
    /\ failed_at' = now
    /\ caller' = [caller EXCEPT ![c].pc = "idle", ![c].res = "failure"]
    /\ UNCHANGED <<now, besidesCB>>

\* func raised something that is not an expected_exception (or the call was
\* cancelled): neither handler runs
Escape(c) ==
    /\ caller[c].pc = "running"
    /\ caller' = [caller EXCEPT ![c].pc = "idle", ![c].res = "other"]
    /\ UNCHANGED <<_state, _failure_count, _last_failure_time, now, failed_at,
                   besidesCB>>

\* somebody reads breaker.state
ReadState ==
    /\ SetBreaker([Breaker EXCEPT !.st = state(Breaker, now)])
    /\ _state' /= _state
    /\ UNCHANGED <<now, failed_at, caller, besidesCB>>

\* time passes
Tick ==
    /\ now < MaxTime
    /\ now' = now + 1
    /\ UNCHANGED <<_state, _failure_count, _last_failure_time, failed_at, caller,
                   besidesCB>>

NextCB ==
    \/ \E c \in Callers :
        \/ \E k \in {"call", "async_call"} : Admit(c, k)
        \/ Succeed(c)
        \/ Fail(c)
        \/ Escape(c)
    \/ ReadState
    \/ Tick

SpecCB == Init /\ [][NextCB]_vars

\* ---- retry_async / retry_sync (retry_utils.py:55-173) -------------------------
\* One wrapper built on the shared RetryConfig object `config`; the result of
\* the k-th invocation of func, and the exception it raises, are identified
\* by k.
\* lines 70-79 / 130-139: building a wrapper with max_retries=n writes n into
\* the config object it was given
Build(n) ==
    /\ config' = n
    /\ retry' = IF retry.pc /= "idle" /\ n /= config
                 THEN [retry EXCEPT !.steady = FALSE]
                 ELSE retry
    /\ UNCHANGED <<besidesRetry>>

\* mutant: the last retry is given up one attempt early
Exhausted_Early(attempt, max_retries) == attempt >= max_retries

\* `if attempt > config.max_retries:` (line 91 / 151)
Exhausted(attempt, max_retries) == attempt > max_retries

\* the for statement takes the next value of range(1, stop), or the loop is
\* over and lines 108-109 raise the exception held, if any
NextAttempt(r) ==
    IF r.attempt + 1 < r.stop
    THEN [r EXCEPT !.pc = "func", !.attempt = @ + 1, !.calls = @ + 1,
                   !.log = Append(@, "call")]
    ELSE IF r.last_exception /= 0
         THEN [r EXCEPT !.pc = "idle", !.res = "raised", !.value = r.last_exception]
         ELSE [r EXCEPT !.pc = "idle", !.res = "returned", !.value = 0]

\* the wrapper is called: lines 84-88 up to the first invocation of func
CallWrapper(k) ==
    /\ retry.pc = "idle"
    /\ retry' = NextAttempt([NoRetry EXCEPT !.kind = k, !.stop = config + 2,
                                             !.N = config])
    /\ UNCHANGED <<config, besidesRetry>>

\* func returned: `return await func(...)` / `return func(...)`
FuncReturns ==
    /\ retry.pc = "func"
    /\ retry' = [retry EXCEPT !.pc = "idle", !.res = "returned",
                               !.value = retry.attempt, !.thrown = "none"]
    /\ UNCHANGED <<config, besidesRetry>>

\* func raised one of config.exceptions: lines 89-105; the bare `raise`
\* re-raises the exception of this attempt
FuncRaises ==
    /\ retry.pc = "func"
    /\ retry' = IF Exhausted(retry.attempt, config)
                 THEN [retry EXCEPT !.pc = "idle", !.res = "raised",
                                    !.value = retry.attempt,
                                    !.last_exception = retry.attempt,
                                    !.thrown = "retryable"]
                 ELSE [retry EXCEPT !.pc = "sleep",
                                    !.last_exception = retry.attempt,
                                    !.log = Append(@, "sleep"),
                                    !.thrown = "retryable"]
    /\ UNCHANGED <<config, besidesRetry>>

\* mutant: `except Exception`, every exception is retried
Uncaught_Retried(r) ==
    [r EXCEPT !.pc = "sleep", !.last_exception = r.attempt,
              !.log = Append(@, "sleep")]

\* an exception that `except config.exceptions` (line 89 / 149) does not
\* match leaves the wrapper at once
Uncaught(r) ==
    [r EXCEPT !.pc = "idle", !.res = "raised_other", !.value = r.attempt]

\* func raised an exception that is not one of config.exceptions
FuncRaisesOther ==
    /\ retry.pc = "func"
    /\ retry' = Uncaught([retry EXCEPT !.thrown = "other"])
    /\ UNCHANGED <<config, besidesRetry>>

\* asyncio.sleep(delay) / time.sleep(delay) is over
SleepEnds ==
    /\ retry.pc = "sleep"
    /\ retry' = NextAttempt(retry)
    /\ UNCHANGED <<config, besidesRetry>>

\* the task running the async wrapper is cancelled in asyncio.sleep(delay)
SleepCancelled ==
    /\ retry.pc = "sleep"
    /\ retry.kind = "async"
    /\ retry' = [retry EXCEPT !.pc = "idle", !.res = "Cancelled"]
    /\ UNCHANGED <<config, besidesRetry>>

NextRetry ==
    \/ \E n \in 0..MaxRetries : Build(n)
    \/ \E k \in {"async", "sync"} : CallWrapper(k)
    \/ FuncReturns
    \/ FuncRaises
    \/ FuncRaisesOther
    \/ SleepEnds
    \/ SleepCancelled

SpecRetry == Init /\ [][NextRetry]_vars

\* ---- RetryConfig.calculate_delay (retry_utils.py:40-52) ------------------------
\* Delays are counted in units of 1/(4 * Grain) seconds, so that a delay plus
\* its jitter is a whole number.  The attributes are floats with whole
\* values; exponential_base is 1.0 or 2.0.
Unit == 4 * Grain

Min(a, b) == IF a <= b THEN a ELSE b

\* whether `self.exponential_base ** e` raises OverflowError
Overflows(base, e) == base >= 2 /\ e >= FloatMaxExp

\* base ** e where it does not overflow; exact up to SatExp, and beyond it a
\* value that is larger than max_delay / initial_delay as the exact one is
Power(base, e) == base ^ Min(e, SatExp)

\* mutant: the exponent is the attempt number
calculate_delay_Shifted(c, attempt, k) ==
    IF Overflows(c.exponential_base, attempt)
    THEN [raised |-> "OverflowError", value |-> 0]
    ELSE LET d == Min(c.initial_delay * Power(c.exponential_base, attempt),
                      c.max_delay)
         IN [raised |-> "none",
             value |-> IF c.jitter THEN d * Unit + d * k ELSE d * Unit]

\* lines 42-52, with random.random() = k / Grain: the exception raised, or
\* the delay returned, in units
calculate_delay(c, attempt, k) ==
    IF Overflows(c.exponential_base, attempt - 1)
    THEN [raised |-> "OverflowError", value |-> 0]
    ELSE LET d == Min(c.initial_delay * Power(c.exponential_base, attempt - 1),
                      c.max_delay)
         IN [raised |-> "none",
             value |-> IF c.jitter THEN d * Unit + d * k ELSE d * Unit]

\* the attempt numbers tried: small ones and those around the float range
Attempts == (1..MaxAttempt) \cup {FloatMaxExp, FloatMaxExp + 1}

\* calculate_delay(attempt) is called on some RetryConfig
CalculateDelay ==
    /\ \E i \in {1, 2}, b \in {1, 2}, m \in {8, 60}, j \in BOOLEAN,
          a \in Attempts, k \in 0..(Grain - 1) :
          LET c == [initial_delay |-> i, exponential_base |-> b,
                    max_delay |-> m, jitter |-> j]
              r == calculate_delay(c, a, k)
          IN delay' = [initial_delay |-> i, exponential_base |-> b,
                       max_delay |-> m, jitter |-> j, attempt |-> a,
                       random |-> k, raised |-> r.raised, result |-> r.value]
    /\ UNCHANGED besidesDelay

NextDelay == CalculateDelay

SpecDelay == Init /\ [][NextDelay]_vars

\* ---- BrowserHealthChecker and healthy_browser_required -------------------------
\* (browser/health_checker.py)  One checker object (_global_health_checker)
\* shared by the coroutines in Checkers; a step is the code between two
\* awaits.  A page is a number, 0 stands for None.  check[c] describes the
\* call coroutine c is in, or the last one it made:
\*   via         "direct" (is_page_healthy called) or "wrapper" (a function
\*               wrapped by healthy_browser_required called)
\*   page        the page whose health is asked for
\*   healthy     what is_page_healthy returned
\*   probe       "none", "issued" while page.evaluate runs, then its outcome
\*   recovery    "none", "pending" while new_page runs, then "ok" or "raised"
\*   recoveries, invocations   new_page calls and calls of the wrapped
\*               function made by this call
\*   res         how the call ended
Str(b) == IF b THEN "True" ELSE "False"

\* what page.evaluate('1 + 1') under wait_for can do: return 2, return
\* something else, raise, or time out
Outcomes == {"2", "3", "exception", "timeout"}

\* mutant: a timed-out probe counts as healthy
is_healthy_Timeout(o) == o \in {"2", "timeout"}

\* lines 52-59: is_healthy = result == 2, False on an exception or a timeout
is_healthy(o) == o = "2"

\* mutant: an entry is used up to and including the age _cache_ttl + 1
Fresh_Late(p) ==
    /\ p \in DOMAIN _health_cache
    /\ now - _health_cache[p].ts <= _cache_ttl + 1

\* lines 41-43: the page has an entry and it is younger than _cache_ttl
Fresh(p) ==
    /\ p \in DOMAIN _health_cache
    /\ now - _health_cache[p].ts < _cache_ttl

\* self._health_cache[page] = (h, time.time())
Put(p, h) ==
    [q \in DOMAIN _health_cache \cup {p} |->
        IF q = p THEN [healthy |-> h, ts |-> now] ELSE _health_cache[q]]

\* mutant: recovery is attempted without looking at browser_context
Proceed_Unguarded(r, h) ==
    IF ~h
    THEN [r EXCEPT !.healthy = Str(h), !.pc = "recover",
                   !.recovery = "pending", !.recoveries = @ + 1]
    ELSE [r EXCEPT !.healthy = Str(h), !.pc = "func", !.invocations = @ + 1]

\* lines 108-120: the wrapper after is_page_healthy returned h; new_page is
\* awaited when the page is unhealthy and a browser context is set,
\* otherwise the wrapped function is called
Proceed(r, h) ==
    IF ~h /\ browser_context
    THEN [r EXCEPT !.healthy = Str(h), !.pc = "recover",
                   !.recovery = "pending", !.recoveries = @ + 1]
    ELSE [r EXCEPT !.healthy = Str(h), !.pc = "func", !.invocations = @ + 1]

\* is_page_healthy returns h to its caller
Answered(r, h) ==
    IF r.via = "direct"
    THEN [r EXCEPT !.healthy = Str(h), !.pc = "idle", !.res = Str(h)]
    ELSE Proceed(r, h)

\* lines 35-52 run by coroutine c whose record is r: up to the return, or up
\* to the await of page.evaluate
Check(c, r) ==
    LET p == r.page
    IN CASE p = 0 ->
              /\ check' = [check EXCEPT ![c] = Answered(r, FALSE)]
              /\ UNCHANGED _health_cache
         [] p /= 0 /\ Fresh(p) ->
              /\ check' = [check EXCEPT ![c] = Answered(r, _health_cache[p].healthy)]
              /\ UNCHANGED _health_cache
         [] p /= 0 /\ ~Fresh(p) /\ p \in page_closed ->
              /\ _health_cache' = Put(p, FALSE)
              /\ check' = [check EXCEPT ![c] = Answered(r, FALSE)]
         [] OTHER ->
              /\ check' = [check EXCEPT ![c] = [r EXCEPT !.pc = "probing",
                                                         !.probe = "issued"]]
              /\ UNCHANGED _health_cache

\* is_page_healthy(p) is called directly
IsPageHealthy(c, p) ==
    /\ check[c].pc = "idle"
    /\ Check(c, [NoCheck EXCEPT !.via = "direct", !.page = p])
    /\ UNCHANGED <<page_closed, agent_current_page, browser_context, now,
                   besidesHealth>>

\* lines 105-120: a wrapped function is called; with no current page the
\* function is called at once
CallWrapped(c) ==
    /\ check[c].pc = "idle"
    /\ IF agent_current_page = 0
       THEN /\ check' = [check EXCEPT ![c] =
                    [NoCheck EXCEPT !.via = "wrapper", !.pc = "func",
                                    !.invocations = 1]]
            /\ UNCHANGED _health_cache
       ELSE Check(c, [NoCheck EXCEPT !.via = "wrapper",
                                     !.page = agent_current_page])
    /\ UNCHANGED <<page_closed, agent_current_page, browser_context, now,
                   besidesHealth>>

\* lines 52-63: page.evaluate ends with outcome o (never 2 on a closed page)
ProbeDone(c, o) ==
    /\ check[c].pc = "probing"
    /\ check[c].page \in page_closed => o /= "2"
    /\ _health_cache' = Put(check[c].page, is_healthy(o))
    /\ check' = [check EXCEPT ![c] =
                    Answered([check[c] EXCEPT !.probe = o], is_healthy(o))]
    /\ UNCHANGED <<page_closed, agent_current_page, browser_context, now,
                   besidesHealth>>

\* the task is cancelled while it awaits page.evaluate: CancelledError is no
\* Exception and passes both except clauses (lines 58, 65)
ProbeCancelled(c) ==
    /\ check[c].pc = "probing"
    /\ check' = [check EXCEPT ![c] = [@ EXCEPT !.pc = "idle",
                                               !.probe = "cancelled",
                                               !.res = "CancelledError"]]
    /\ UNCHANGED <<_health_cache, page_closed, agent_current_page,
                   browser_context, now, besidesHealth>>

\* the page objects in use
PagesInUse ==
    DOMAIN _health_cache \cup {agent_current_page}
        \cup {check[c].page : c \in Checkers}

\* lines 114, 120: new_page returns a new page, which becomes the current
\* page; the wrapped function is called
NewPageOk(c) ==
    /\ check[c].pc = "recover"
    /\ \E p \in Pages \ PagesInUse :
          /\ agent_current_page' = p
          /\ page_closed' = page_closed \ {p}
    /\ check' = [check EXCEPT ![c] = [@ EXCEPT !.pc = "func",
                                               !.recovery = "ok",
                                               !.invocations = @ + 1]]
    /\ UNCHANGED <<_health_cache, browser_context, now, besidesHealth>>

\* lines 116-120: new_page raises, the exception is logged and the wrapped
\* function is called
NewPageRaises(c) ==
    /\ check[c].pc = "recover"
    /\ check' = [check EXCEPT ![c] = [@ EXCEPT !.pc = "func",
                                               !.recovery = "raised",
                                               !.invocations = @ + 1]]
    /\ UNCHANGED <<_health_cache, page_closed, agent_current_page,
                   browser_context, now, besidesHealth>>

\* the task is cancelled while it awaits new_page
NewPageCancelled(c) ==
    /\ check[c].pc = "recover"
    /\ check' = [check EXCEPT ![c] = [@ EXCEPT !.pc = "idle",
                                               !.recovery = "cancelled",
                                               !.res = "CancelledError"]]
    /\ UNCHANGED <<_health_cache, page_closed, agent_current_page,
                   browser_context, now, besidesHealth>>

\* line 120: the wrapped function ends, its result or exception is the
\* wrapper's
FuncEnds(c) ==
    /\ check[c].pc = "func"
    /\ check' = [check EXCEPT ![c] = [@ EXCEPT !.pc = "idle",
                                               !.res = "returned"]]
    /\ UNCHANGED <<_health_cache, page_closed, agent_current_page,
                   browser_context, now, besidesHealth>>

\* lines 92-93: clear_cache(page)
ClearCachePage(p) ==
    /\ p \in DOMAIN _health_cache
    /\ _health_cache' = [q \in DOMAIN _health_cache \ {p} |-> _health_cache[q]]
    /\ UNCHANGED <<page_closed, agent_current_page, browser_context, check,
                   now, besidesHealth>>

\* lines 94-95: clear_cache()
ClearCacheAll ==
    /\ DOMAIN _health_cache /= {}
    /\ _health_cache' = <<>>
    /\ UNCHANGED <<page_closed, agent_current_page, browser_context, check,
                   now, besidesHealth>>

\* a page is closed or crashes: is_closed() is true from now on
ClosePage(p) ==
    /\ p \notin page_closed
    /\ page_closed' = page_closed \cup {p}
    /\ UNCHANGED <<_health_cache, agent_current_page, browser_context, check,
                   now, besidesHealth>>

\* the owner of the wrapped method sets or drops its browser_context
SetContext ==
    /\ browser_context' = ~browser_context
    /\ UNCHANGED <<_health_cache, page_closed, agent_current_page, check,
                   now, besidesHealth>>

\* the owner of the wrapped method switches to another page, or to none
SetPage(p) ==
    /\ p /= agent_current_page
    /\ agent_current_page' = p
    /\ UNCHANGED <<_health_cache, page_closed, browser_context, check,
                   now, besidesHealth>>

\* the coroutine that calls the wrapped methods of the object owning
\* agent_current_page and browser_context
Owners == {c \in Checkers : c = 1}

\* the health checker called directly by concurrent coroutines
NextHealth ==
    \/ \E c \in Checkers :
        \/ \E p \in Pages \cup {0} : IsPageHealthy(c, p)
        \/ \E o \in Outcomes : ProbeDone(c, o)
        \/ ProbeCancelled(c)
    \/ \E p \in Pages : ClearCachePage(p)
    \/ ClearCacheAll
    \/ \E p \in Pages : ClosePage(p)
    \/ Tick

SpecHealth == Init /\ [][NextHealth]_vars

\* the methods wrapped by healthy_browser_required, called one after the
\* other
NextWrapped ==
    \/ \E c \in Owners :
        \/ CallWrapped(c)
        \/ \E o \in Outcomes : ProbeDone(c, o)
        \/ ProbeCancelled(c)
        \/ NewPageOk(c)
        \/ NewPageRaises(c)
        \/ NewPageCancelled(c)
        \/ FuncEnds(c)
    \/ \E p \in Pages : ClosePage(p)
    \/ SetContext
    \/ \E p \in Pages \cup {0} : SetPage(p)
    \/ Tick

SpecWrapped == Init /\ [][NextWrapped]_vars

\* ---- DOMCache (dom/cache.py) --------------------------------------------------
\* The body of every operation runs under self._lock and contains no await,
\* so the lock is free whenever an operation starts and each operation is
\* one step.  Of an entry (dom_state, timestamp) the timestamp is kept; get
\* returns "DOMState" for the dom_state of an entry and "None" for None.
\* lines 64-71: the key is the MD5 digest of 'url|highlight|focus|viewport'.
\* The joined string determines its four parts and distinct strings are
\* taken to have distinct digests, so the key is the pair of the page's
\* current URL and the parameter combination; the page itself is no part
\* of it.
_generate_cache_key(p, a) == <<page_url[p], a>>

\* the elements of a list
Elems(s) == {s[i] : i \in 1..Len(s)}

\* list.remove(k) for k in the list: the first occurrence goes
remove(s, k) ==
    LET i == CHOOSE i \in 1..Len(s) :
                 s[i] = k /\ \A j \in 1..(i - 1) : s[j] /= k
    IN SubSeq(s, 1, i - 1) \o SubSeq(s, i + 1, Len(s))

\* a dict without the keys in D
Without(f, D) == [k \in DOMAIN f \ D |-> f[k]]

\* mutant: the key is appended without removing its old position
Touch_Again(s, k) == Append(s, k)

\* lines 148-150: the key moves to the end of the access order
Touch(s, k) == Append(IF k \in Elems(s) THEN remove(s, k) ELSE s, k)

\* line 99: time.time() - timestamp > self.ttl_seconds
Expired(k) == now - _cache[k].ts > ttl_seconds

\* lines 92-112: get(p, a)
Get(p, a) ==
    LET k == _generate_cache_key(p, a)
        r == [NoOp EXCEPT !.op = "get", !.page = p, !.result = "None"]
    IN /\ CASE k \notin DOMAIN _cache ->
                 /\ dom' = r
                 /\ UNCHANGED <<_cache, _access_order>>
            [] k \in DOMAIN _cache /\ k \notin Elems(_access_order) ->
                 \* list.remove raises ValueError, after the del when the
                 \* entry has expired
                 /\ dom' = [r EXCEPT !.raised = "ValueError", !.result = "none"]
                 /\ _cache' = IF Expired(k) THEN Without(_cache, {k}) ELSE _cache
                 /\ UNCHANGED _access_order
            [] k \in DOMAIN _cache /\ k \in Elems(_access_order) /\ Expired(k) ->
                 /\ dom' = r
                 /\ _cache' = Without(_cache, {k})
                 /\ _access_order' = remove(_access_order, k)
            [] OTHER ->
                 /\ dom' = [r EXCEPT !.result = "DOMState"]
                 /\ _access_order' = Append(remove(_access_order, k), k)
                 /\ UNCHANGED _cache
       /\ UNCHANGED <<_page_caches, page_url, now, besidesDOM>>

\* lines 139-141: whether set evicts, for key k
Evicts(k) == Cardinality(DOMAIN _cache) >= max_size /\ k \notin DOMAIN _cache

\* lines 134-158: set(p, a, dom_state)
Set(p, a) ==
    LET k == _generate_cache_key(p, a)
        r == [NoOp EXCEPT !.op = "set", !.page = p]
    IN /\ IF Evicts(k) /\ _access_order = <<>>
          THEN \* list.pop(0) raises IndexError
               /\ dom' = [r EXCEPT !.raised = "IndexError"]
               /\ UNCHANGED <<_cache, _access_order, _page_caches>>
          ELSE IF Evicts(k) /\ Head(_access_order) \notin DOMAIN _cache
          THEN \* del self._cache[oldest_key] raises KeyError after the pop
               /\ dom' = [r EXCEPT !.raised = "KeyError"]
               /\ _access_order' = Tail(_access_order)
               /\ UNCHANGED <<_cache, _page_caches>>
          ELSE LET oldest == IF Evicts(k) THEN {Head(_access_order)} ELSE {}
                   order == IF Evicts(k) THEN Tail(_access_order)
                                         ELSE _access_order
                   kept == Without(_cache, oldest)
               IN /\ _cache' = [q \in DOMAIN kept \cup {k} |->
                                  IF q = k THEN [ts |-> now]
                                           ELSE kept[q]]
                  /\ _access_order' = Touch(order, k)
                  /\ _page_caches' =
                        [q \in DOMAIN _page_caches \cup {p} |->
                            IF q = p
                            THEN (IF p \in DOMAIN _page_caches
                                  THEN _page_caches[p] ELSE {}) \cup {k}
                            ELSE _page_caches[q]]
                  /\ dom' = [r EXCEPT !.evicted = Evicts(k)]
       /\ UNCHANGED <<page_url, now, besidesDOM>>

\* lines 162-169: invalidate_page(p)
InvalidatePage(p) ==
    LET r == [NoOp EXCEPT !.op = "invalidate_page", !.page = p]
        mine == IF p \in DOMAIN _page_caches
                THEN _page_caches[p] \cap DOMAIN _cache ELSE {}
    IN /\ IF mine \subseteq Elems(_access_order)
          THEN /\ _cache' = Without(_cache, mine)
               /\ _access_order' =
                     SelectSeq(_access_order, LAMBDA k : k \notin mine)
               /\ _page_caches' = Without(_page_caches, {p})
               /\ dom' = r
          ELSE \* list.remove raises ValueError at some key, after the keys
               \* that the loop visited before it
               \E bad \in mine \ Elems(_access_order) :
               \E done \in SUBSET (mine \cap Elems(_access_order)) :
                   /\ _cache' = Without(_cache, done \cup {bad})
                   /\ _access_order' =
                         SelectSeq(_access_order, LAMBDA k : k \notin done)
                   /\ dom' = [r EXCEPT !.raised = "ValueError"]
                   /\ UNCHANGED _page_caches
       /\ UNCHANGED <<page_url, now, besidesDOM>>

\* lines 173-177: clear()
Clear ==
    /\ _cache' = <<>>
    /\ _access_order' = <<>>
    /\ _page_caches' = <<>>
    /\ dom' = [NoOp EXCEPT !.op = "clear"]
    /\ UNCHANGED <<page_url, now, besidesDOM>>

\* page p navigates to URL u
Navigate(p, u) ==
    /\ u /= page_url[p]
    /\ page_url' = [page_url EXCEPT ![p] = u]
    /\ UNCHANGED <<_cache, _access_order, _page_caches, dom, now,
                   besidesDOM>>

NextDOM ==
    \/ \E p \in DomPages, a \in Params : Get(p, a)
    \/ \E p \in DomPages, a \in Params : Set(p, a)
    \/ \E p \in DomPages : InvalidatePage(p)
    \/ Clear
    \/ \E p \in DomPages, u \in Urls : Navigate(p, u)
    \/ Tick

SpecDOM == Init /\ [][NextDOM]_vars

\* ---- the claims ------------------------------------------------------------
\* the browser a call has taken from the queue or started and not given back
Claimed(r) == IF r.browser /= 0 THEN r.browser ELSE r.cand

\* the call of task t ends in this step
Ends(t) == task[t].pc /= "idle" /\ task'[t].pc = "idle"

\* C1: every tracked browser b has 0 <= _context_counts[b] <=
\* max_contexts_per_browser in every reachable state, also after a failing or
\* cancelled new_context call.
C1_CountsInRange ==
    \A b \in DOMAIN context_counts :
        0 <= context_counts[b] /\ context_counts[b] <= max_contexts_per_browser

\* C2: the number of tracked browsers never exceeds max_browsers, under any
\* interleaving of initialize, acquire_context, release and shutdown.
C2_AtMostMaxBrowsers == Cardinality(browsers) <= max_browsers

\* C3: once the shutdown flag is set, no acquire_context call that is inside
\* the acquisition loop (waiting on the queue or on the pool lock) starts a
\* browser or is handed a (browser, context) pair.
InLoop == {"get", "sleep", "evict_lock", "cap_lock", "to_lock"}

C3_NoHandoutAfterShutdown ==
    [][\A t \in Tasks :
          (shutdown /\ task[t].pc \in InLoop)
              => task'[t].pc \notin {"to_create", "new_context"}]_vars

\* C4: an acquire_context call that fails or is cancelled after it took a
\* browser from the queue and before it yielded leaves that browser on the
\* queue with the count it had before the call (pool not shut down).
C4_FailedAcquireRestores ==
    [][\A t \in Tasks :
          LET b == Claimed(task[t])
          IN (/\ Ends(t)
              /\ task[t].pc \in {"cap_lock", "new_context", "inc_lock", "close", "rel_lock"}
              /\ ~task[t].yielded
              /\ task[t].loopStarted = 0
              /\ b /= 0
              /\ ~shutdown)
             => (/\ InQueue(available', b)
                 /\ b \in DOMAIN context_counts'
                 /\ context_counts'[b] = task[t].before)]_vars

C6_QueueDistinct ==
    /\ \A b \in Ids : Occurrences(available, b) <= 1
    /\ \A t \in Tasks : task[t].browser /= 0 => ~InQueue(available, task[t].browser)

\* one caller holds a browser after another call released one to the queue
C6_Witness ==
    \E t, u \in Tasks :
        /\ task[t].pc = "body"
        /\ task[u].pc = "idle" /\ task[u].op = "acquire" /\ task[u].res = "ok"

Evicted(t, b) ==
    /\ b \notin browsers'
    /\ b \notin DOMAIN context_counts'
    /\ ~InQueue(available', b)
    /\ task'[t].browser /= b
    /\ \/ task'[t].pc = "get"
       \/ task'[t].pc = "idle" /\ task'[t].res = "PoolShuttingDown" /\ shutdown

C8_DisconnectedEvicted ==
    [][\A t \in Tasks :
          /\ (/\ task[t].pc = "get"
              /\ available /= <<>>
              /\ Head(available) \in disconnected
              /\ task'[t] /= task[t]
              /\ task'[t].res /= "Cancelled")
             => \/ Evicted(t, Head(available))
                \/ /\ task'[t].pc = "evict_lock"
                   /\ task'[t].cand = Head(available)
                   /\ ~InQueue(available', Head(available))
          /\ (/\ task[t].pc = "evict_lock"
              /\ task'[t] /= task[t]
              /\ task'[t].res /= "Cancelled")
             => Evicted(t, task[t].cand)]_vars

\* the pool's only browser was evicted and the acquirer is polling again
C8_Witness ==
    /\ initialized /\ ~shutdown
    /\ browsers = {} /\ context_counts = <<>> /\ available = <<>>
    /\ \E t \in Tasks : task[t].pc = "get"

\* C9 as claimed: a single acquire_context call starts at most one browser,
\* counting initialize() and the timeout path together.
C9_AtMostOneStart ==
    \A t \in Tasks : task[t].initStarted + task[t].loopStarted <= 1

\* C9 amended: a single acquire_context call starts at most one browser in
\* initialize() and at most one in the timeout path of _get_available_browser
\* (so at most two), and the browser started in the timeout path is the one
\* the loop returns.
C9_AtMostOneStartPerPath ==
    \A t \in Tasks :
        /\ task[t].initStarted <= 1
        /\ task[t].loopStarted <= 1
        /\ task[t].loopStarted = 1
              => (task[t].browser /= 0 /\ task[t].pc \notin InLoop \cup {"to_create"})

\* one call has started a browser in initialize() and another in the loop
C9_Witness ==
    \E t \in Tasks : task[t].initStarted = 1 /\ task[t].loopStarted = 1

\* C10: initialize() starts a browser only on an uninitialized pool, and that
\* step enqueues exactly this browser and marks the pool initialized, so
\* concurrent initialize() calls create one browser; the flag is only set by
\* such a step; an initialize() call that runs while the pool is initialized
\* changes no pool state.
PoolState == <<browsers, available, context_counts, lock, initialized, shutdown>>

\* the browser.start() awaited by initialize() in task t returns in this step
InitStarts(t) == task[t].pc = "init_create" /\ browsers' /= browsers

C10_InitializeOnce ==
    [][/\ \A t \in Tasks :
            /\ InitStarts(t)
                  => (/\ ~initialized /\ initialized'
                      /\ \E b \in Ids \ browsers :
                            /\ browsers' = browsers \cup {b}
                            /\ available' = Append(available, b))
            /\ (/\ initialized
                /\ task'[t] /= task[t]
                /\ \/ task[t].pc = "idle" /\ task'[t].op = "initialize"
                   \/ task[t].pc = "init_lock" /\ task[t].op = "initialize")
                  => (/\ PoolState' = PoolState
                      /\ task'[t].pc = "idle"
                      /\ task'[t].res \in {"ok", "Cancelled"})
       /\ (~initialized /\ initialized')
             => \E t \in Tasks : InitStarts(t)]_vars

\* two initialize() calls have returned and the pool holds the one browser
C10_Witness ==
    /\ initialized
    /\ Cardinality(browsers) = 1 /\ Len(available) = 1
    /\ \E t, u \in Tasks :
          /\ t /= u
          /\ task[t].pc = "idle" /\ task[t].op = "initialize" /\ task[t].res = "ok"
          /\ task[u].pc = "idle" /\ task[u].op = "initialize" /\ task[u].res = "ok"

\* ---- shutdown ---------------------------------------------------------------
\* get_stats() (lines 172-180), without the two constructor parameters
get_stats ==
    [total_browsers |-> Cardinality(browsers),
     available_browsers |-> Len(available),
     context_counts |-> context_counts]

\* the shutdown() call of task t returns in this step
ShutdownCompletes(t) ==
    /\ task[t].pc \in {"idle", "sd_lock", "sd_close"}
    /\ task'[t] /= task[t]
    /\ task'[t].pc = "idle" /\ task'[t].op = "shutdown"

\* C13: when shutdown() completes all pool state is cleared: no tracked
\* browsers, no context counts and an empty availability queue, so get_stats
\* reports total_browsers = 0 and available_browsers = 0.
C13_ShutdownClearsAll ==
    [][\A t \in Tasks :
          ShutdownCompletes(t)
              => (/\ get_stats'.total_browsers = 0
                  /\ get_stats'.available_browsers = 0
                  /\ get_stats'.context_counts = <<>>)]_vars

\* no shutdown() call is in progress
NoShutdownRunning == \A u \in Tasks : task[u].pc \notin {"sd_lock", "sd_close"}

\* C14: an acquire_context call made after shutdown() has completed fails
\* with the pool-shutting-down error and leaves the pool as shutdown left it:
\* no browser started, nothing added to the tracked set, the counts or the
\* queue.
C14_AcquireAfterShutdownFails ==
    [][\A t \in Tasks :
          (/\ shutdown /\ NoShutdownRunning
           /\ browsers = {} /\ context_counts = <<>> /\ ~initialized
           /\ task[t].pc = "idle"
           /\ task'[t] /= task[t]
           /\ task'[t].op = "acquire")
              => (/\ task'[t].pc = "idle"
                  /\ task'[t].res = "PoolShuttingDown"
                  /\ PoolState' = PoolState)]_vars

\* C15: shutdown() calls close on every browser tracked when it runs, also
\* when some of the close calls raise, and returns normally; a shutdown()
\* call on a pool that a shutdown has emptied closes nothing and changes
\* nothing.
C15_ShutdownClosesAll ==
    [][\A t \in Tasks :
          /\ (task[t].pc = "sd_close" /\ task'[t].pc = "sd_close")
                => browsers' = browsers
          /\ (task[t].pc = "sd_close" /\ task'[t].pc = "idle")
                => (/\ DOMAIN closed' = browsers
                    /\ task'[t].res = "ok")
          /\ (/\ shutdown /\ browsers = {} /\ context_counts = <<>> /\ ~initialized
              /\ ShutdownCompletes(t) /\ task[t].pc /= "sd_close")
                => (/\ closed' = closed
                    /\ PoolState' = PoolState
                    /\ task'[t].res = "ok")]_vars

\* a shutdown() returned normally although the close() of a browser raised,
\* and the other tracked browser of that shutdown was closed as well
C15_Witness ==
    /\ \E b \in DOMAIN closed : closed[b] = "raised"
    /\ \E b \in DOMAIN closed : closed[b] = "closed"
    /\ browsers = {}
    /\ \E t \in Tasks :
          task[t].pc = "idle" /\ task[t].op = "shutdown" /\ task[t].res = "ok"

\* ---- termination ------------------------------------------------------------
\* task t is inside acquire_context before the yield: in initialize(), in the
\* loop of _get_available_browser, or between its return and the yield
Acquiring(t) ==
    \/ task[t].pc \in InLoop \cup {"to_create", "new_context", "inc_lock"}
    \/ task[t].pc \in {"init_lock", "init_create"} /\ task[t].op = "acquire"

\* C11: under fair scheduling every acquire_context call that is in flight
\* when shutdown() is called eventually terminates: it raises or it yields,
\* it does not poll the queue for ever.
C11_InFlightTerminates ==
    \A t \in Tasks :
        (shutdown /\ Acquiring(t)) ~> (task[t].pc \in {"idle", "body"})

\* shutdown() has been called while a call sleeps between two polls (a call
\* enters the loop only while the flag is not set)
C11_Witness ==
    \E t \in Tasks : shutdown /\ task[t].pc = "sleep" /\ task[t].op = "acquire"

\* C12: if the pool is never shut down, nothing fails, nothing is cancelled
\* and every holder leaves its scope, then under fair scheduling every
\* pending acquire_context call eventually obtains a (browser, context) pair.
C12_EveryPendingObtains ==
    \A t \in Tasks : Acquiring(t) ~> (task[t].pc = "body")

\* C12, as far as it holds: under the same conditions a pending call
\* eventually obtains its pair or another call is handed a browser; one call
\* can be overtaken again and again.
C12_SomePendingObtains ==
    \A t \in Tasks :
        Acquiring(t) ~> (\/ task[t].pc = "body"
                         \/ \E u \in Tasks \ {t} : task[u].pc = "new_context")

\* one call sleeps between two polls while the other holds the only browser
C12_Witness ==
    \E t, u \in Tasks :
        /\ task[t].pc = "sleep"
        /\ task[u].pc = "body"
        /\ browsers = {task[u].browser}
        /\ ~shutdown

\* ---- CircuitBreaker -----------------------------------------------------------
\* the guarded function of caller c ends in this step with result x
Completes(c, x) ==
    caller[c].pc = "running" /\ caller'[c].pc = "idle" /\ caller'[c].res = x

\* caller c makes a call in this step
Calls(c) == caller[c].pc = "idle" /\ caller'[c] /= caller[c]

\* C16: from closed, the failure that makes failure_threshold consecutive
\* failures opens the breaker, fewer leave it closed, a success resets the
\* count to 0, and a call made while the state reads open raises the
\* circuit-open error without invoking the guarded operation.
C16_OpensAtThreshold ==
    [][\A c \in Callers :
          /\ (Completes(c, "failure") /\ _state = "closed")
                => (/\ _failure_count' = _failure_count + 1
                    /\ _state' = IF _failure_count' >= failure_threshold
                                  THEN "open" ELSE "closed")
          /\ Completes(c, "ok") => _failure_count' = 0
          /\ (Calls(c) /\ state(Breaker, now) = "open")
                => (/\ caller'[c].pc = "idle"
                    /\ caller'[c].res = "CircuitOpen"
                    /\ <<_state, _failure_count, _last_failure_time>>' =
                          <<_state, _failure_count, _last_failure_time>>)]_vars

\* the breaker has opened at the threshold and has rejected a call
C16_Witness ==
    /\ _state = "open"
    /\ _failure_count = failure_threshold
    /\ \E c \in Callers : caller[c].pc = "idle" /\ caller[c].res = "CircuitOpen"

\* C17: whenever the breaker is open, a state read made more than
\* recovery_timeout after the last failure returns half-open, whatever calls
\* admitted before it opened have done since.
C17_OpenRecovers ==
    (_state = "open" /\ now - failed_at > recovery_timeout)
        => state(Breaker, now) = "half-open"

\* the calls in progress that were admitted while the state read half-open
Trials == {c \in Callers : caller[c].pc = "running" /\ caller[c].read = "half-open"}

\* C18: while the breaker is half-open at most one invocation of the guarded
\* operation is admitted until that trial completes.
C18_OneTrial == Cardinality(Trials) <= 1

\* C19: with the breaker half-open, a call that succeeds sets the state to
\* closed with failure count 0, and a call that fails with the expected
\* exception sets it to open with the recovery timeout counted from that
\* failure.
C19_TrialDecides ==
    [][\A c \in Callers :
          /\ (Completes(c, "ok") /\ _state = "half-open")
                => (_state' = "closed" /\ _failure_count' = 0)
          /\ (Completes(c, "failure") /\ _state = "half-open")
                => (/\ _state' = "open"
                    /\ _last_failure_time' = now
                    /\ \A t \in now..MaxTime :
                          state(Breaker', t) = "half-open"
                              <=> t - now > recovery_timeout)]_vars

\* a trial call has closed the breaker again
C19_Witness ==
    /\ _state = "closed" /\ _failure_count = 0
    /\ failed_at /= 0 /\ now - failed_at > recovery_timeout
    /\ \E c \in Callers :
          caller[c].pc = "idle" /\ caller[c].read = "half-open" /\ caller[c].res = "ok"

\* ---- retry ------------------------------------------------------------------
\* invocations of func with one sleep between each two of them
Alternates(log) ==
    \A i \in 1..Len(log) : log[i] = IF i % 2 = 1 THEN "call" ELSE "sleep"

C24_ConfigUnchanged == [][config' = config]_vars

\* C26: an exception outside the retryable set leaves the wrapper from the
\* attempt that raised it, with no delay waited and no further attempt; raised
\* by the first attempt, the operation has been invoked exactly once.
C26_OtherPropagates ==
    [][(retry.pc = "func" /\ retry'.thrown = "other")
          => (/\ retry'.pc = "idle"
              /\ retry'.res = "raised_other"
              /\ retry'.value = retry.attempt
              /\ retry'.calls = retry.calls
              /\ retry'.log = retry.log
              /\ retry.attempt = 1 => (retry'.calls = 1 /\ retry'.log = <<"call">>))]_vars

\* the first attempt of a wrapper that would retry has raised an exception
\* outside the retryable set
C26_Witness ==
    /\ retry.pc = "idle" /\ retry.res = "raised_other"
    /\ retry.value = 1 /\ retry.N >= 1 /\ retry.log = <<"call">>

\* C30: in every reachable state of the breaker, closed implies a failure
\* count below failure_threshold, and open implies a failure count of at
\* least failure_threshold and a recorded last-failure time.
C30_StateMatchesCount ==
    /\ _state = "closed" => _failure_count < failure_threshold
    /\ _state = "open" => (/\ _failure_count >= failure_threshold
                           /\ _last_failure_time /= 0)

\* ---- context accounting --------------------------------------------------------
\* the callers that hold a context on browser b: between the yield and the
\* end of their body
Holders(b) == {t \in Tasks : task[t].browser = b /\ task[t].pc = "body"}

\* no caller is between new_context and the count update, or inside the
\* release block, for browser b
Settled(b) ==
    \A t \in Tasks :
        task[t].browser = b => task[t].pc \notin {"inc_lock", "close", "rel_lock"}

\* C28: for every tracked browser b, whenever no caller is between
\* new_context and the count update or inside the release block for b,
\* _context_counts[b] is the number of contexts on b that acquire_context has
\* created and not yet released.
C28_CountIsLiveContexts ==
    \A b \in DOMAIN context_counts :
        Settled(b) => context_counts[b] = Cardinality(Holders(b))

\* C29: a browser is handed to at most one caller at a time, from the return
\* of _get_available_browser until that caller's release, so each browser has
\* at most one live context whatever max_contexts_per_browser is.
C29_OneCallerPerBrowser ==
    /\ \A t, u \in Tasks :
          (t /= u /\ task[t].browser /= 0) => task[u].browser /= task[t].browser
    /\ \A t \in Tasks :
          task[t].browser /= 0 => ~InQueue(available, task[t].browser)
    /\ \A b \in Ids : Cardinality(Holders(b)) <= 1

\* one caller holds a context on the only browser, which has room for
\* another context, while a second caller polls
C29_Witness ==
    \E t, u \in Tasks :
        /\ task[t].pc = "body"
        /\ browsers = {task[t].browser}
        /\ context_counts[task[t].browser] < max_contexts_per_browser
        /\ task[u].pc = "sleep"

\* ---- backoff delays ---------------------------------------------------------
\* the RetryConfig of the last calculate_delay call, with jitter switched off
Plain ==
    [initial_delay |-> delay.initial_delay,
     exponential_base |-> delay.exponential_base,
     max_delay |-> delay.max_delay, jitter |-> FALSE]

\* the claimed un-jittered delay of the last call, in units, for an attempt
\* number small enough to compute the power
Claimed_d ==
    Unit * Min(delay.initial_delay * delay.exponential_base ^ (delay.attempt - 1),
               delay.max_delay)

\* what C25 says of a call that returned a number
DelayAsClaimed ==
    /\ delay.result <= 5 * Grain * delay.max_delay
    /\ (~delay.jitter) => delay.result <= Unit * delay.max_delay
    /\ (~delay.jitter /\ delay.attempt <= MaxAttempt) => delay.result = Claimed_d
    /\ (/\ ~delay.jitter /\ delay.initial_delay = 1
        /\ delay.exponential_base = 2 /\ delay.max_delay = 60
        /\ delay.attempt \in 1..4)
          => delay.result = Unit * <<1, 2, 4, 8>>[delay.attempt]
    /\ (~delay.jitter /\ delay.attempt \in 2..MaxAttempt)
          => calculate_delay(Plain, delay.attempt - 1, 0).value <= delay.result
    /\ (delay.jitter /\ delay.attempt <= MaxAttempt)
          => (Claimed_d <= delay.result /\ 4 * delay.result <= 5 * Claimed_d)

\* C25: calculate_delay(k) for k >= 1 with jitter off equals
\* min(initial_delay * base^(k-1), max_delay): 1, 2, 4, 8 for attempts 1..4
\* with initial_delay=1, base=2, max_delay=60, non-decreasing and never above
\* max_delay; with jitter on every delay lies in [d, 1.25*d].
C25_DelayFormula ==
    delay.attempt >= 1
        => (delay.raised = "none" /\ DelayAsClaimed)

\* the same for the attempt numbers whose power is a finite float
C25_FiniteDelayFormula ==
    (delay.attempt >= 1 /\ delay.raised = "none") => DelayAsClaimed

\* ---- health checks ----------------------------------------------------------
\* C27: when several is_page_healthy calls for the same page run concurrently
\* and no fresh cache entry exists, only one probe (page.evaluate) is issued
\* for that page: no two calls are inside page.evaluate for the same page.
C27_OneProbePerPage ==
    \A c, d \in Checkers :
        (/\ c /= d
         /\ check[c].pc = "probing"
         /\ check[d].pc = "probing") => check[c].page /= check[d].page

\* C21: a sequential is_page_healthy call made less than cache_ttl after the
\* entry of its page was written returns the cached value without probing
\* and leaves the cache alone; a call that finds the entry at least
\* cache_ttl old (or none) does not use it and checks the page again
\* (is_closed, then page.evaluate), and the entry a probe writes carries the
\* time at which the probe ended.
C21_CachedWithinTtl ==
    [][\A c \in Checkers :
         LET p == check'[c].page
         IN /\ (/\ check[c].pc = "idle" /\ check'[c] /= check[c]
                /\ check'[c].via = "direct" /\ p /= 0)
                  => IF /\ p \in DOMAIN _health_cache
                        /\ now - _health_cache[p].ts < _cache_ttl
                     THEN /\ check'[c].pc = "idle"
                          /\ check'[c].probe = "none"
                          /\ check'[c].res = Str(_health_cache[p].healthy)
                          /\ _health_cache' = _health_cache
                     ELSE \/ /\ p \notin page_closed
                             /\ check'[c].pc = "probing"
                             /\ check'[c].probe = "issued"
                             /\ check'[c].res = "none"
                          \/ /\ p \in page_closed
                             /\ check'[c].res = "False"
                             /\ _health_cache'[p] = [healthy |-> FALSE, ts |-> now]
            /\ (check[c].pc = "probing" /\ check'[c].probe \in Outcomes)
                  => _health_cache'[p] =
                        [healthy |-> check'[c].probe = "2", ts |-> now]]_vars

\* a call that returned a cached healthy result without probing, later than
\* the entry was written
C21_Witness ==
    \E c \in Checkers :
        /\ check[c].via = "direct" /\ check[c].res = "True"
        /\ check[c].probe = "none"
        /\ check[c].page \in DOMAIN _health_cache
        /\ _health_cache[check[c].page].ts < now

\* what both readings of C22 say of the step that ends an is_page_healthy
\* call of coroutine c: a boolean comes back unless the task was cancelled;
\* False for an absent page and for a probe that raised or timed out
EndsAsClaimed(c) ==
    /\ check'[c].res \in {"True", "False", "CancelledError"}
    /\ check'[c].res = "CancelledError" <=> check'[c].probe = "cancelled"
    /\ check'[c].page = 0 => check'[c].res = "False"
    /\ check'[c].probe \in {"exception", "timeout"} => check'[c].res = "False"

\* C22 as stated: is_page_healthy never raises: an absent page, a closed
\* page, and any exception or timeout raised by the probe each yield the
\* result False (the cancellation of the calling task left aside).
C22_ClosedYieldsFalse ==
    [][\A c \in Checkers :
         (/\ check'[c] /= check[c] /\ check'[c].pc = "idle"
          /\ check'[c].via = "direct")
            => /\ EndsAsClaimed(c)
               /\ (check'[c].page \in page_closed
                     /\ check'[c].probe /= "cancelled")
                       => check'[c].res = "False"]_vars

\* C22 amended: is_page_healthy raises no exception of its own (only the
\* cancellation of the calling task passes through): an absent page and any
\* exception or timeout raised by the probe yield False, and a closed page
\* yields False unless the cache holds an entry younger than cache_ttl,
\* whose value is returned as it is.
C22_FalseUnlessCached ==
    [][\A c \in Checkers :
         LET p == check'[c].page
         IN (/\ check'[c] /= check[c] /\ check'[c].pc = "idle"
             /\ check'[c].via = "direct")
               => /\ EndsAsClaimed(c)
                  /\ (p \in page_closed /\ check'[c].probe /= "cancelled")
                        => IF /\ check[c].pc = "idle"
                              /\ p \in DOMAIN _health_cache
                              /\ now - _health_cache[p].ts < _cache_ttl
                           THEN check'[c].res = Str(_health_cache[p].healthy)
                           ELSE check'[c].res = "False"]_vars

\* a call answered False because its probe raised or timed out
C22_Witness ==
    \E c \in Checkers :
        /\ check[c].via = "direct" /\ check[c].pc = "idle"
        /\ check[c].probe \in {"exception", "timeout"}
        /\ check[c].res = "False"

\* what both readings of C23 say of a step of a wrapped call of coroutine c,
\* where `recovers` tells whether the health result calls for a recovery
WrappedOnce(c, recovers) ==
    /\ (check[c].pc = "idle" /\ check'[c].page = 0)
          => (/\ check'[c].pc = "func" /\ check'[c].healthy = "none"
              /\ check'[c].invocations = 1 /\ check'[c].recoveries = 0)
    /\ (check[c].healthy = "none" /\ check'[c].healthy /= "none")
          => IF recovers
             THEN /\ check'[c].pc = "recover" /\ check'[c].recoveries = 1
                  /\ check'[c].invocations = 0
             ELSE /\ check'[c].pc = "func" /\ check'[c].recoveries = 0
                  /\ check'[c].invocations = 1
    /\ (check[c].pc = "recover" /\ check'[c].recovery \in {"ok", "raised"})
          => (/\ check'[c].pc = "func" /\ check'[c].recoveries = 1
              /\ check'[c].invocations = 1)
    /\ check[c].pc = "func"
          => (/\ check'[c].res = "returned" /\ check'[c].invocations = 1
              /\ check'[c].recoveries = check[c].recoveries)

\* C23 as stated: each invocation of a wrapped function invokes the wrapped
\* operation exactly once; when the current page is unhealthy exactly one
\* recovery attempt precedes it, also when that attempt raises; when the
\* page is healthy no recovery is attempted.
C23_RecoversWhenUnhealthy ==
    [][\A c \in Checkers :
         (check'[c] /= check[c] /\ check'[c].via = "wrapper")
            => WrappedOnce(c, check'[c].healthy = "False")]_vars

\* C23 amended: each invocation that is not cancelled invokes the wrapped
\* operation exactly once; exactly one recovery attempt precedes it when the
\* current page is unhealthy and a browser context is set, also when that
\* attempt raises; no recovery is attempted when the page is healthy, when
\* there is no current page, or when no browser context is set.
C23_RecoversWithContext ==
    [][\A c \in Checkers :
         (check'[c] /= check[c] /\ check'[c].via = "wrapper")
            => WrappedOnce(c, check'[c].healthy = "False" /\ browser_context)]_vars

\* a wrapped call whose page was unhealthy and whose one recovery attempt
\* raised has invoked the operation once
C23_Witness ==
    \E c \in Checkers :
        /\ check[c].via = "wrapper" /\ check[c].res = "returned"
        /\ check[c].healthy = "False" /\ check[c].recovery = "raised"
        /\ check[c].recoveries = 1 /\ check[c].invocations = 1

\* ---- DOM cache --------------------------------------------------------------
\* C31: after any sequence of get, set, invalidate_page and clear with
\* max_size >= 1, _access_order holds exactly the keys of _cache with no
\* duplicates, the cache holds at most max_size entries, and no operation
\* has failed on its list or dict.
C31_OrderMatchesCache ==
    /\ Elems(_access_order) = DOMAIN _cache
    /\ Len(_access_order) = Cardinality(Elems(_access_order))
    /\ Cardinality(DOMAIN _cache) <= max_size
    /\ dom.raised = "none"

\* a set on a full cache has evicted the least recently used entry
C31_Witness ==
    /\ dom.op = "set" /\ dom.evicted
    /\ Len(_access_order) = max_size
    /\ \E a \in Params :
          _access_order[Len(_access_order)] = _generate_cache_key(dom.page, a)

\* C32: after invalidate_page(page) completed, get(page, ...) returns None
\* for every parameter combination until a later set is made for that page,
\* also when the page has navigated or another page has cached entries for
\* the same URL; here for the get that is the next cache operation after
\* the invalidate_page, whatever the pages did before and in between.
C32_InvalidatedMisses ==
    [][(/\ dom.op = "invalidate_page" /\ dom.raised = "none"
        /\ dom'.op = "get" /\ dom'.page = dom.page)
          => dom'.result = "None"]_vars
====
